---- MODULE Spec2Model ----
(***************************************************************************)
(* Model of stop_name_encoder.py: the codec that embeds display flags in a  *)
(* bus stop name as a prefix token and a '!' suffix.                        *)
(*                                                                         *)
(* A Python str is a sequence of one-character strings.                     *)
(*   SpecCodec : the three pure functions applied to bounded inputs.        *)
(*   Spec      : a stored stop name edited repeatedly through               *)
(*               update_stop_name_from_ui and read back through             *)
(*               get_ui_values_from_name.                                   *)
(***************************************************************************)
EXTENDS Integers, Sequences, FiniteSets

VARIABLES stop_name, initial_name, ui, call, last_op

vars == <<stop_name, initial_name, ui, call, last_op>>

(* ----------------------------- bounds ---------------------------------- *)
MaxLen == 5
MaxName == 3
MaxBase == 3
MaxText == 3
MaxAtCount == 4

(* ----------------------------- inputs ---------------------------------- *)
Alphabet == {"_", "!", "~", "a"}
TextAlphabet == {"@", "a"}

StringsUpTo(S, n) == UNION {[1..k -> S] : k \in 0..n}

ExampleName == <<"!", "!", "O", "l", "d", " ", "T", "o", "w", "n">>
ExampleText == <<"a", "@", "b", "@", "c", "@", "@">>

DecodeNames == StringsUpTo(Alphabet, MaxLen)
UpdateNames == StringsUpTo(Alphabet, MaxName) \cup {ExampleName}
BaseNames == StringsUpTo(Alphabet, MaxBase)
Texts == StringsUpTo(TextAlphabet, MaxText) \cup {ExampleText}
UiTexts == StringsUpTo({"@"}, MaxText) \cup {ExampleText}
AtCounts == 0..MaxAtCount
UiPages == 1..3
AnyPages == 0..4

(* ------------------------ str primitives ------------------------------- *)
startswith(name, tok) ==
    /\ Len(name) >= Len(tok)
    /\ SubSeq(name, 1, Len(tok)) = tok

endswith(name, tok) ==
    /\ Len(name) >= Len(tok)
    /\ SubSeq(name, Len(name) - Len(tok) + 1, Len(name)) = tok

\* name[n:]
slice_from(name, n) == SubSeq(name, n + 1, Len(name))

\* name[:-1]
drop_last(name) == SubSeq(name, 1, Len(name) - 1)

RECURSIVE count(_, _)
count(text, ch) ==
    IF text = <<>> THEN 0
    ELSE (IF Head(text) = ch THEN 1 ELSE 0) + count(Tail(text), ch)

(* ------------------------ StopNameProperties --------------------------- *)
StopNameProperties ==
    [autoskip |-> FALSE, w8w6_different |-> FALSE, chi_pages |-> 1,
     eng_multiline |-> FALSE, base_name |-> <<>>]

(* --------------------------- decode ------------------------------------ *)
strip_suffix_keep(props, name) ==
    IF endswith(name, <<"!">>)
    THEN [props |-> [props EXCEPT !.eng_multiline = TRUE], name |-> name]
    ELSE [props |-> props, name |-> name]

strip_suffix_noflag(props, name) ==
    IF endswith(name, <<"!">>)
    THEN [props |-> props, name |-> drop_last(name)]
    ELSE [props |-> props, name |-> name]

\* the suffix check: returns the updated props and the remaining name
strip_suffix(props, name) ==
    IF endswith(name, <<"!">>)
    THEN [props |-> [props EXCEPT !.eng_multiline = TRUE], name |-> drop_last(name)]
    ELSE [props |-> props, name |-> name]

match_prefix_short_first(props, name) ==
    IF startswith(name, <<"_", "!">>) THEN
        [props |-> [props EXCEPT !.autoskip = TRUE, !.chi_pages = 2],
         name |-> slice_from(name, 2)]
    ELSE IF startswith(name, <<"_", "!", "~">>) THEN
        [props |-> [props EXCEPT !.autoskip = TRUE, !.w8w6_different = TRUE, !.chi_pages = 3],
         name |-> slice_from(name, 3)]
    ELSE IF startswith(name, <<"_", "~">>) THEN
        [props |-> [props EXCEPT !.autoskip = TRUE, !.w8w6_different = TRUE, !.chi_pages = 2],
         name |-> slice_from(name, 2)]
    ELSE IF startswith(name, <<"_", "!", "!">>) THEN
        [props |-> [props EXCEPT !.autoskip = TRUE, !.chi_pages = 3],
         name |-> slice_from(name, 3)]
    ELSE IF startswith(name, <<"!", "~">>) THEN
        [props |-> [props EXCEPT !.w8w6_different = TRUE, !.chi_pages = 3],
         name |-> slice_from(name, 2)]
    ELSE IF startswith(name, <<"~">>) THEN
        [props |-> [props EXCEPT !.w8w6_different = TRUE, !.chi_pages = 2],
         name |-> slice_from(name, 1)]
    ELSE IF startswith(name, <<"!", "!">>) THEN
        [props |-> [props EXCEPT !.chi_pages = 3],
         name |-> slice_from(name, 2)]
    ELSE IF startswith(name, <<"!">>) THEN
        [props |-> [props EXCEPT !.chi_pages = 2],
         name |-> slice_from(name, 1)]
    ELSE IF startswith(name, <<"_">>) THEN
        [props |-> [props EXCEPT !.autoskip = TRUE],
         name |-> slice_from(name, 1)]
    ELSE [props |-> props, name |-> name]

match_prefix_wrong_slice(props, name) ==
    IF startswith(name, <<"_", "!", "~">>) THEN
        [props |-> [props EXCEPT !.autoskip = TRUE, !.w8w6_different = TRUE, !.chi_pages = 3],
         name |-> slice_from(name, 3)]
    ELSE IF startswith(name, <<"_", "~">>) THEN
        [props |-> [props EXCEPT !.autoskip = TRUE, !.w8w6_different = TRUE, !.chi_pages = 2],
         name |-> slice_from(name, 3)]
    ELSE IF startswith(name, <<"_", "!", "!">>) THEN
        [props |-> [props EXCEPT !.autoskip = TRUE, !.chi_pages = 3],
         name |-> slice_from(name, 3)]
    ELSE IF startswith(name, <<"_", "!">>) THEN
        [props |-> [props EXCEPT !.autoskip = TRUE, !.chi_pages = 2],
         name |-> slice_from(name, 2)]
    ELSE IF startswith(name, <<"!", "~">>) THEN
        [props |-> [props EXCEPT !.w8w6_different = TRUE, !.chi_pages = 3],
         name |-> slice_from(name, 2)]
    ELSE IF startswith(name, <<"~">>) THEN
        [props |-> [props EXCEPT !.w8w6_different = TRUE, !.chi_pages = 2],
         name |-> slice_from(name, 1)]
    ELSE IF startswith(name, <<"!", "!">>) THEN
        [props |-> [props EXCEPT !.chi_pages = 3],
         name |-> slice_from(name, 2)]
    ELSE IF startswith(name, <<"!">>) THEN
        [props |-> [props EXCEPT !.chi_pages = 2],
         name |-> slice_from(name, 1)]
    ELSE IF startswith(name, <<"_">>) THEN
        [props |-> [props EXCEPT !.autoskip = TRUE],
         name |-> slice_from(name, 1)]
    ELSE [props |-> props, name |-> name]

match_prefix_no_pages(props, name) ==
    IF startswith(name, <<"_", "!", "~">>) THEN
        [props |-> [props EXCEPT !.autoskip = TRUE, !.w8w6_different = TRUE, !.chi_pages = 3],
         name |-> slice_from(name, 3)]
    ELSE IF startswith(name, <<"_", "~">>) THEN
        [props |-> [props EXCEPT !.autoskip = TRUE, !.w8w6_different = TRUE, !.chi_pages = 2],
         name |-> slice_from(name, 2)]
    ELSE IF startswith(name, <<"_", "!", "!">>) THEN
        [props |-> [props EXCEPT !.autoskip = TRUE, !.chi_pages = 3],
         name |-> slice_from(name, 3)]
    ELSE IF startswith(name, <<"_", "!">>) THEN
        [props |-> [props EXCEPT !.autoskip = TRUE, !.chi_pages = 2],
         name |-> slice_from(name, 2)]
    ELSE IF startswith(name, <<"!", "~">>) THEN
        [props |-> [props EXCEPT !.w8w6_different = TRUE, !.chi_pages = 3],
         name |-> slice_from(name, 2)]
    ELSE IF startswith(name, <<"~">>) THEN
        [props |-> [props EXCEPT !.w8w6_different = TRUE],
         name |-> slice_from(name, 1)]
    ELSE IF startswith(name, <<"!", "!">>) THEN
        [props |-> [props EXCEPT !.chi_pages = 3],
         name |-> slice_from(name, 2)]
    ELSE IF startswith(name, <<"!">>) THEN
        [props |-> [props EXCEPT !.chi_pages = 2],
         name |-> slice_from(name, 1)]
    ELSE IF startswith(name, <<"_">>) THEN
        [props |-> [props EXCEPT !.autoskip = TRUE],
         name |-> slice_from(name, 1)]
    ELSE [props |-> props, name |-> name]

\* the if/elif chain over the prefixes, in the order of the source
match_prefix(props, name) ==
    IF startswith(name, <<"_", "!", "~">>) THEN
        [props |-> [props EXCEPT !.autoskip = TRUE, !.w8w6_different = TRUE, !.chi_pages = 3],
         name |-> slice_from(name, 3)]
    ELSE IF startswith(name, <<"_", "~">>) THEN
        [props |-> [props EXCEPT !.autoskip = TRUE, !.w8w6_different = TRUE, !.chi_pages = 2],
         name |-> slice_from(name, 2)]
    ELSE IF startswith(name, <<"_", "!", "!">>) THEN
        [props |-> [props EXCEPT !.autoskip = TRUE, !.chi_pages = 3],
         name |-> slice_from(name, 3)]
    ELSE IF startswith(name, <<"_", "!">>) THEN
        [props |-> [props EXCEPT !.autoskip = TRUE, !.chi_pages = 2],
         name |-> slice_from(name, 2)]
    ELSE IF startswith(name, <<"!", "~">>) THEN
        [props |-> [props EXCEPT !.w8w6_different = TRUE, !.chi_pages = 3],
         name |-> slice_from(name, 2)]
    ELSE IF startswith(name, <<"~">>) THEN
        [props |-> [props EXCEPT !.w8w6_different = TRUE, !.chi_pages = 2],
         name |-> slice_from(name, 1)]
    ELSE IF startswith(name, <<"!", "!">>) THEN
        [props |-> [props EXCEPT !.chi_pages = 3],
         name |-> slice_from(name, 2)]
    ELSE IF startswith(name, <<"!">>) THEN
        [props |-> [props EXCEPT !.chi_pages = 2],
         name |-> slice_from(name, 1)]
    ELSE IF startswith(name, <<"_">>) THEN
        [props |-> [props EXCEPT !.autoskip = TRUE],
         name |-> slice_from(name, 1)]
    ELSE [props |-> props, name |-> name]

decode_stop_name(name_in) ==
    LET s == strip_suffix(StopNameProperties, name_in)
        m == match_prefix(s.props, s.name)
    IN  [m.props EXCEPT !.base_name = m.name]

(* --------------------------- encode ------------------------------------ *)
encode_prefix_split_default(autoskip, w8w6_different, chi_pages) ==
    IF w8w6_different THEN
        LET p == IF chi_pages = 2 THEN <<"~">> ELSE <<"!", "~">>
        IN  IF autoskip THEN <<"_">> \o p ELSE p
    ELSE
        LET p == IF chi_pages = 2 THEN <<"!">>
                 ELSE IF chi_pages = 3 THEN <<"!", "!">>
                 ELSE <<>>
        IN  IF autoskip THEN <<"_">> \o p ELSE p

encode_prefix(autoskip, w8w6_different, chi_pages) ==
    IF w8w6_different THEN
        LET p == IF chi_pages = 2 THEN <<"~">>
                 ELSE IF chi_pages = 3 THEN <<"!", "~">>
                 ELSE <<>>
        IN  IF autoskip THEN <<"_">> \o p ELSE p
    ELSE
        LET p == IF chi_pages = 2 THEN <<"!">>
                 ELSE IF chi_pages = 3 THEN <<"!", "!">>
                 ELSE <<>>
            q == IF autoskip THEN <<"_">> \o p ELSE p
        IN  IF autoskip /\ q = <<"_">> THEN <<"_">> ELSE q

encode_suffix_ge2(eng_at_count) ==
    IF eng_at_count >= 2 THEN <<"!">> ELSE <<>>

encode_suffix(eng_at_count) ==
    IF eng_at_count > 2 THEN <<"!">> ELSE <<>>

encode_stop_name(base_name, autoskip, w8w6_different, chi_pages, eng_at_count) ==
    encode_prefix(autoskip, w8w6_different, chi_pages)
        \o base_name \o encode_suffix(eng_at_count)

(* --------------------------- wrappers ---------------------------------- *)
update_keeps_current_name(current_name, autoskip, w8w6_different, chi_pages, eng_display) ==
    encode_stop_name(current_name, autoskip, w8w6_different, chi_pages,
                     count(eng_display, "@"))

update_merges_old_flags(current_name, autoskip, w8w6_different, chi_pages, eng_display) ==
    LET props == decode_stop_name(current_name)
    IN  encode_stop_name(props.base_name, autoskip \/ props.autoskip,
                         w8w6_different, chi_pages, count(eng_display, "@"))

update_stop_name_from_ui(current_name, autoskip, w8w6_different, chi_pages, eng_display) ==
    LET props == decode_stop_name(current_name)
        eng_at_count == count(eng_display, "@")
    IN  encode_stop_name(props.base_name, autoskip, w8w6_different,
                         chi_pages, eng_at_count)

get_ui_values_from_name(name_in) ==
    LET props == decode_stop_name(name_in)
    IN  [autoskip |-> props.autoskip,
         w8w6_different |-> props.w8w6_different,
         chi_pages |-> props.chi_pages,
         base_name |-> props.base_name]

(* ---------------------------- state ------------------------------------ *)
NoCall ==
    [name |-> <<>>, autoskip |-> FALSE, w8w6_different |-> FALSE,
     chi_pages |-> 1, eng_at_count |-> 0, eng_display |-> <<>>,
     ret_name |-> <<>>, ret_props |-> StopNameProperties]

NoUi ==
    [autoskip |-> FALSE, w8w6_different |-> FALSE, chi_pages |-> 1,
     eng_display |-> <<>>]

\* SpecCodec: nothing stored, no call made yet; a behaviour makes one call,
\* the functions being pure
InitCodec ==
    /\ stop_name = <<>>
    /\ initial_name = <<>>
    /\ ui = NoUi
    /\ call = NoCall
    /\ last_op = "start"

DecodeCall ==
    /\ last_op = "start"
    /\ \E s \in DecodeNames :
        /\ call' = [NoCall EXCEPT !.name = s, !.ret_props = decode_stop_name(s)]
        /\ last_op' = "decode"
        /\ UNCHANGED <<stop_name, initial_name, ui>>

EncodeCall ==
    /\ last_op = "start"
    /\ \E b \in BaseNames, a \in BOOLEAN, w \in BOOLEAN, p \in AnyPages, n \in AtCounts :
        /\ call' = [NoCall EXCEPT !.name = b, !.autoskip = a, !.w8w6_different = w,
                                  !.chi_pages = p, !.eng_at_count = n,
                                  !.ret_name = encode_stop_name(b, a, w, p, n)]
        /\ last_op' = "encode"
        /\ UNCHANGED <<stop_name, initial_name, ui>>

UpdateCall ==
    /\ last_op = "start"
    /\ \E s \in UpdateNames, a \in BOOLEAN, w \in BOOLEAN, p \in UiPages, t \in Texts :
        /\ call' = [NoCall EXCEPT !.name = s, !.autoskip = a, !.w8w6_different = w,
                                  !.chi_pages = p, !.eng_display = t,
                                  !.ret_name = update_stop_name_from_ui(s, a, w, p, t)]
        /\ last_op' = "update"
        /\ UNCHANGED <<stop_name, initial_name, ui>>

NextCodec == DecodeCall \/ EncodeCall \/ UpdateCall

SpecCodec == InitCodec /\ [][NextCodec]_vars

\* Spec: a stop name is stored; the UI fields hold their defaults
Init ==
    /\ stop_name \in BaseNames
    /\ initial_name = stop_name
    /\ ui = NoUi
    /\ call = NoCall
    /\ last_op = "start"

\* the user sets the fields and the stored name is replaced by the update
UiEdit ==
    \E a \in BOOLEAN, w \in BOOLEAN, p \in UiPages, t \in UiTexts :
        /\ stop_name' = update_stop_name_from_ui(stop_name, a, w, p, t)
        /\ ui' = [autoskip |-> a, w8w6_different |-> w, chi_pages |-> p,
                  eng_display |-> t]
        /\ last_op' = "edit"
        /\ UNCHANGED <<initial_name, call>>

\* the fields are filled from the stored name
UiLoad ==
    LET v == get_ui_values_from_name(stop_name)
    IN  /\ ui' = [ui EXCEPT !.autoskip = v.autoskip,
                            !.w8w6_different = v.w8w6_different,
                            !.chi_pages = v.chi_pages]
        /\ last_op' = "load"
        /\ UNCHANGED <<stop_name, initial_name, call>>

Next == UiEdit \/ UiLoad

Spec == Init /\ [][Next]_vars

(* ------------------- vocabulary used by the properties ----------------- *)
Tokens ==
    {<<"_", "!", "~">>, <<"_", "~">>, <<"_", "!", "!">>, <<"_", "!">>,
     <<"!", "~">>, <<"~">>, <<"!", "!">>, <<"!">>, <<"_">>}

\* the prefix table: the flags of a token, and of no token (<<>>)
TableRow(t) ==
    [autoskip |-> (t # <<>> /\ t[1] = "_"),
     w8w6_different |-> (t # <<>> /\ t[Len(t)] = "~"),
     chi_pages |-> 1 + Cardinality({i \in 1..Len(t) : t[i] # "_"})]

TableRows == {TableRow(t) : t \in Tokens \cup {<<>>}}

IsPrefixOf(t, s) == Len(t) <= Len(s) /\ \A i \in 1..Len(t) : s[i] = t[i]

StartsWithToken(s) == \E t \in Tokens : IsPrefixOf(t, s)

EndsWithBang(s) == s # <<>> /\ s[Len(s)] = "!"

After(s, n) == [i \in 1..(Len(s) - n) |-> s[i + n]]

\* a base name the codec can carry: no leading token, no trailing '!'
CleanBase(s) == ~StartsWithToken(s) /\ ~EndsWithBang(s)

\* the longest token that is a prefix of s, <<>> when there is none
LongestToken(s) ==
    LET M == {t \in Tokens : IsPrefixOf(t, s)}
    IN  IF M = {} THEN <<>>
        ELSE CHOOSE t \in M : \A u \in M : Len(u) <= Len(t)

Flags(r) ==
    [autoskip |-> r.autoskip, w8w6_different |-> r.w8w6_different,
     chi_pages |-> r.chi_pages]

NumAt(text) == Cardinality({i \in 1..Len(text) : text[i] = "@"})

(* ------------------------------ C1 ------------------------------------- *)
\* C1: for every base_name without a leading prefix token and without a
\* trailing '!', every autoskip, split, chinese_pages in {1,2,3} and
\* eng_at_count, decoding the encoded name gives back base_name.
C1_BaseNameRoundTrip ==
    (last_op = "encode" /\ call.chi_pages \in 1..3 /\ CleanBase(call.name))
        => decode_stop_name(call.ret_name).base_name = call.name

C1_Witness ==
    /\ last_op = "encode"
    /\ call.name = <<"a", "~", "a">>
    /\ call.autoskip /\ call.w8w6_different /\ call.chi_pages = 3
    /\ call.eng_at_count = 3
    /\ call.ret_name = <<"_", "!", "~", "a", "~", "a", "!">>
    /\ decode_stop_name(call.ret_name).base_name = call.name

(* ------------------------------ C2 ------------------------------------- *)
IsTableRow(c) == c.chi_pages \in 1..3 /\ ~(c.w8w6_different /\ c.chi_pages = 1)

FlagsRecovered(c) ==
    LET d == decode_stop_name(c.ret_name)
    IN  /\ d.autoskip = c.autoskip
        /\ d.w8w6_different = c.w8w6_different
        /\ d.chi_pages = c.chi_pages
        /\ d.eng_multiline = (c.eng_at_count > 2)

TokenDecoded(t) ==
    /\ call.ret_props.base_name = After(call.name, Len(t))
    /\ Flags(call.ret_props) = TableRow(t)

\* C3 as stated: for every token t and every base_name not starting with a
\* token, decode(t + base_name) returns base_name and the table row of t.
C3_TokenDecode_Original ==
    last_op = "decode" =>
        \A t \in Tokens :
            (IsPrefixOf(t, call.name) /\ ~StartsWithToken(After(call.name, Len(t))))
                => TokenDecoded(t)

\* C3 amended: the same, provided t + base_name does not end with '!'
\* (base_name does not end with '!', and is not empty when t ends with '!').
C3_TokenDecode ==
    (last_op = "decode" /\ ~EndsWithBang(call.name)) =>
        \A t \in Tokens :
            (IsPrefixOf(t, call.name) /\ ~StartsWithToken(After(call.name, Len(t))))
                => TokenDecoded(t)

C3_Witness ==
    /\ last_op = "decode"
    /\ call.name = <<"_", "!", "!", "a", "_">>
    /\ TokenDecoded(<<"_", "!", "!">>)
    /\ call.ret_props.base_name = <<"a", "_">>

(* ------------------------------ C4 ------------------------------------- *)
\* C4: after the single trailing '!' (if any) is dropped, decode strips the
\* longest token that is a prefix of the rest, and strips nothing from the
\* front exactly when no token is a prefix.
C4_LongestPrefix ==
    last_op = "decode" =>
        LET rest == IF EndsWithBang(call.name)
                    THEN [i \in 1..(Len(call.name) - 1) |-> call.name[i]]
                    ELSE call.name
            t == LongestToken(rest)
        IN  /\ call.ret_props.base_name = After(rest, Len(t))
            /\ Flags(call.ret_props) = TableRow(t)
            /\ (call.ret_props.base_name = rest) <=> ~StartsWithToken(rest)

C4_Witness ==
    /\ last_op = "decode"
    /\ call.name = <<"_", "!", "~", "a">>
    /\ call.ret_props = [autoskip |-> TRUE, w8w6_different |-> TRUE, chi_pages |-> 3,
                         eng_multiline |-> FALSE, base_name |-> <<"a">>]

(* ------------------------------ C5 ------------------------------------- *)
\* the decoded name without its last character
BeforeBang == [i \in 1..(Len(call.name) - 1) |-> call.name[i]]

\* the decoded name is base_name + '!' with base_name not ending in '!'
SuffixCase ==
    /\ last_op = "decode"
    /\ EndsWithBang(call.name)
    /\ ~EndsWithBang(BeforeBang)

\* C5 as stated: for every base_name not ending with '!',
\* decode(base_name + '!') has english_multiline and base_name = base_name.
C5_SuffixRoundTrip_Original ==
    SuffixCase =>
        /\ call.ret_props.eng_multiline
        /\ call.ret_props.base_name = BeforeBang

\* C5 amended: for every base_name not ending with '!', decode(base_name+'!')
\* has english_multiline = true, and its base_name equals base_name exactly
\* when base_name does not start with a prefix token.
C5_SuffixRoundTrip ==
    SuffixCase =>
        /\ call.ret_props.eng_multiline
        /\ (call.ret_props.base_name = BeforeBang) <=> ~StartsWithToken(BeforeBang)

C5_Witness ==
    /\ last_op = "decode"
    /\ call.name = <<"a", "_", "a", "!">>
    /\ call.ret_props.eng_multiline
    /\ call.ret_props.base_name = <<"a", "_", "a">>

(* ------------------------------ C6 ------------------------------------- *)
\* C6 as stated: whatever the initial stored name and whatever edits are
\* applied, the stored name always decodes to the base_name the initial
\* name decodes to.
C6_BasePreserved_Original ==
    decode_stop_name(stop_name).base_name = decode_stop_name(initial_name).base_name

\* C6 amended: the same, provided the base_name decoded from the initial
\* name has no leading prefix token and no trailing '!'.
C6_BasePreserved ==
    CleanBase(decode_stop_name(initial_name).base_name)
        => decode_stop_name(stop_name).base_name
               = decode_stop_name(initial_name).base_name

C6_Witness ==
    /\ last_op = "edit"
    /\ initial_name = <<"_", "!", "a">>
    /\ ui.w8w6_different /\ ui.chi_pages = 2 /\ ~ui.autoskip
    /\ ui.eng_display = <<"@", "@", "@">>
    /\ stop_name = <<"~", "a", "!">>
    /\ decode_stop_name(stop_name).base_name = <<"a">>

(* ------------------------------ C7 ------------------------------------- *)
\* current names that carry the base name b under any prefix and suffix
Carriers(b) ==
    {n \in {t \o b \o x : t \in Tokens \cup {<<>>}, x \in {<<>>, <<"!">>}} :
        decode_stop_name(n).base_name = b}

\* C7: the result of update_stop_name_from_ui is the encoding of the decoded
\* base_name with the new flags and the number of '@' in the text; the flags
\* carried by the current name do not matter.
C7_UpdateDiscardsOldFlags ==
    last_op = "update" =>
        LET b == decode_stop_name(call.name).base_name
        IN  /\ call.ret_name = encode_stop_name(b, call.autoskip, call.w8w6_different,
                                                call.chi_pages, NumAt(call.eng_display))
            /\ \A n \in Carriers(b) :
                   update_stop_name_from_ui(n, call.autoskip, call.w8w6_different,
                                            call.chi_pages, call.eng_display)
                       = call.ret_name

C7_Witness ==
    /\ last_op = "update"
    /\ call.name = ExampleName
    /\ call.autoskip /\ ~call.w8w6_different /\ call.chi_pages = 2
    /\ call.eng_display = ExampleText
    /\ call.ret_name = <<"_", "!", "O", "l", "d", " ", "T", "o", "w", "n", "!">>

(* ------------------------------ C8 ------------------------------------- *)
\* C8: decode returns, for every input, a record with chinese_pages in
\* {1,2,3} and flags that are a row of the prefix table; with no token and
\* no trailing '!' the flags are the defaults and base_name is the input.
C8_DecodeValid ==
    last_op = "decode" =>
        /\ DOMAIN call.ret_props
               = {"autoskip", "w8w6_different", "chi_pages", "eng_multiline", "base_name"}
        /\ call.ret_props.chi_pages \in 1..3
        /\ Flags(call.ret_props) \in TableRows
        /\ ~(call.ret_props.w8w6_different /\ call.ret_props.chi_pages = 1)
        /\ (~StartsWithToken(call.name) /\ ~EndsWithBang(call.name))
               => call.ret_props = [autoskip |-> FALSE, w8w6_different |-> FALSE,
                                    chi_pages |-> 1, eng_multiline |-> FALSE,
                                    base_name |-> call.name]

C8_Witness ==
    /\ last_op = "decode"
    /\ call.name = <<"~", "!", "_", "~", "!">>
    /\ call.ret_props = [autoskip |-> FALSE, w8w6_different |-> TRUE, chi_pages |-> 2,
                         eng_multiline |-> TRUE, base_name |-> <<"!", "_", "~">>]

(* ------------------------------ C9 ------------------------------------- *)
NoPageToken ==
    call.ret_name = encode_stop_name(call.name, call.autoskip, FALSE, 1,
                                     call.eng_at_count)

\* C9 as stated: for chinese_pages outside {2,3} encode gives the string it
\* gives for no split and 1 page; and for split with 1 page, decoding the
\* result gives width_variant_split = false, for every base_name.
C9_NoPageToken_Original ==
    (last_op = "encode" /\ call.chi_pages \notin {2, 3}) =>
        /\ NoPageToken
        /\ (call.w8w6_different /\ call.chi_pages = 1)
               => ~decode_stop_name(call.ret_name).w8w6_different

\* C9 amended: the same, the decoded width_variant_split being false for the
\* base names that do not start with a prefix token.
C9_NoPageToken ==
    (last_op = "encode" /\ call.chi_pages \notin {2, 3}) =>
        /\ NoPageToken
        /\ (call.w8w6_different /\ call.chi_pages = 1 /\ ~StartsWithToken(call.name))
               => ~decode_stop_name(call.ret_name).w8w6_different

C9_Witness ==
    /\ last_op = "encode"
    /\ call.w8w6_different /\ call.chi_pages = 1 /\ call.autoskip
    /\ call.name = <<"a">> /\ call.eng_at_count = 0
    /\ call.ret_name = <<"_", "a">>
    /\ ~decode_stop_name(call.ret_name).w8w6_different

(* ------------------------------ C10 ------------------------------------ *)
AgainSame ==
    update_stop_name_from_ui(call.ret_name, call.autoskip, call.w8w6_different,
                             call.chi_pages, call.eng_display) = call.ret_name

\* C10 as stated: for every current_name, flags and text, applying the same
\* edit to the result of update_stop_name_from_ui gives that result again.
C10_Idempotent_Original ==
    last_op = "update" => AgainSame

\* C10 amended: the same, for the current names whose decoded base_name has
\* no leading prefix token and no trailing '!'.
C10_Idempotent ==
    (last_op = "update" /\ CleanBase(decode_stop_name(call.name).base_name))
        => AgainSame

C10_Witness ==
    /\ last_op = "update"
    /\ call.name = <<"_", "a", "!">>
    /\ call.w8w6_different /\ call.chi_pages = 3 /\ ~call.autoskip
    /\ call.eng_display = <<"@", "a", "@">>
    /\ call.ret_name = <<"!", "~", "a">>
    /\ AgainSame

====
